---- MODULE Spec2Model ----
(***************************************************************************)
(* Model of the suffix-array text generator of horgh/irssi_log:            *)
(*   suffixarray.Build / suffixarray.Sort and argot's main,                *)
(*   generateTextFromSuffixArray, getRandomPhrase and getKWords.           *)
(*                                                                         *)
(* A Go string is a sequence of byte values.  Go indices are 0-based; the  *)
(* operators below keep the 0-based indices of the source and add 1 only   *)
(* where a TLA+ sequence is indexed.                                       *)
(*                                                                         *)
(* A second specification, SpecLog, models the log programs: ParseLog and  *)
(* ParseLine of package irssi_log, the mains of read_log and               *)
(* messages_to_string with writeMessages, and the single-file program      *)
(* irssi_log with its own parseLog.  Log lines are TLA+ strings.           *)
(*                                                                         *)
(* A third specification, SpecWords, models the two word-frequency         *)
(* generators: analyzeEntries, generateText and pickWord.                  *)
(***************************************************************************)
EXTENDS Integers, Sequences, FiniteSets, TLC

VARIABLES
    pc,             \* position of main: "flags","read","build","sort","gen","done","exit"
    file,           \* *file flag
    sentenceLength, \* *sentenceLength flag
    k,              \* *k flag
    text,           \* main's text: the corpus read from the file
    suffixArray,    \* the slice Build returns and Sort sorts in place
    i,              \* loop counter of generateTextFromSuffixArray
    phrase,         \* generateTextFromSuffixArray's phrase
    genText,        \* generateTextFromSuffixArray's local text (the output so far)
    searchPhrase,   \* last search key built at line 126
    phraseIndex,    \* last result of sort.Search at line 127
    phraseFull,     \* last reservoir selection (lines 152-160)
    prefix,         \* last suffix drawn by getRandomPhrase (line 171)
    sentence,       \* the value generateTextFromSuffixArray returned
    err,            \* the error value of the last call in main
    exitCode,       \* process exit status; -1 while running
    program,        \* which main runs: "argot" or one of the log programs
    logLines,       \* the lines of the log file
    lineLimit,      \* *lineLimit flag
    location,       \* the location loaded from *locationString
    lineCount,      \* ParseLog's lineCount
    entries,        \* ParseLog's entries, then main's
    currentDate,    \* ParseLog's currentDate
    out,            \* what writeMessages has written to the output file
    wordCounts,     \* the map analyzeEntries returns: word or phrase -> word -> int
    phrases,        \* generateText's slice of the keys of the map (phrases, words)
    word0,          \* generateText's word0 (two-word generator)
    word1,          \* generateText's word1 (two-word generator)
    currentWord,    \* generateText's currentWord (one-word generator)
    textWordCount   \* generateText's wordCount

\* the variables of the generator alone, but for pc, err and exitCode
genVars == <<file, sentenceLength, k, text, suffixArray, i, phrase, genText,
             searchPhrase, phraseIndex, phraseFull, prefix, sentence>>

logVars == <<program, logLines, lineLimit, location, lineCount, entries,
             currentDate, out>>

\* the variables of the word-frequency generators alone
wordVars == <<wordCounts, phrases, word0, word1, currentWord, textWordCount>>

vars == <<pc, file, sentenceLength, k, text, suffixArray, i, phrase, genText,
          searchPhrase, phraseIndex, phraseFull, prefix, sentence, err, exitCode,
          program, logLines, lineLimit, location, lineCount, entries,
          currentDate, out, wordCounts, phrases, word0, word1, currentWord,
          textWordCount>>

-----------------------------------------------------------------------------
(* Bounds of the model *)

MaxCorpusLen == 5
MaxLength == 3
MaxK == 2
MaxRand == 1

-----------------------------------------------------------------------------
(* Bytes and strings *)

SP == 32

Ord == [a |-> 97, b |-> 98, c |-> 99, e |-> 101, h |-> 104, m |-> 109,
        n |-> 110, o |-> 111, r |-> 114, s |-> 115, t |-> 116]

Alphabet == {SP, Ord.a, Ord.b}

BoundedStrings == UNION {[1..len -> Alphabet] : len \in 0..MaxCorpusLen}

\* "the cat sat on the mat the cat ran"
ExampleCorpus ==
    <<Ord.t, Ord.h, Ord.e, SP, Ord.c, Ord.a, Ord.t, SP, Ord.s, Ord.a, Ord.t, SP,
      Ord.o, Ord.n, SP, Ord.t, Ord.h, Ord.e, SP, Ord.m, Ord.a, Ord.t, SP,
      Ord.t, Ord.h, Ord.e, SP, Ord.c, Ord.a, Ord.t, SP, Ord.r, Ord.a, Ord.n>>

Corpora == BoundedStrings \cup {ExampleCorpus}

Nil == "nil"

\* text[from:] with a 0-based byte offset
SliceFrom(str, from) == SubSeq(str, from + 1, Len(str))

\* strings.HasPrefix
HasPrefix(str, pre) ==
    /\ Len(str) >= Len(pre)
    /\ SubSeq(str, 1, Len(pre)) = pre

\* Go's < on strings: byte-wise lexicographic order
RECURSIVE LessFrom(_, _, _)
LessFrom(x, y, j) ==
    IF j > Len(x) \/ j > Len(y) THEN Len(x) < Len(y)
    ELSE IF x[j] # y[j] THEN x[j] < y[j]
    ELSE LessFrom(x, y, j + 1)

\* a comparison that looks at the first byte only
LessFirstByte(x, y) ==
    IF x = <<>> \/ y = <<>> THEN Len(x) < Len(y) ELSE x[1] < y[1]

Less(x, y) == LessFrom(x, y, 1)

-----------------------------------------------------------------------------
(* suffixarray.Build *)

RECURSIVE BuildLoop(_, _, _)
BuildLoop(str, off, suffixes) ==
    IF off >= Len(str) THEN suffixes
    ELSE IF str[off + 1] = SP
         THEN BuildLoop(str, off + 1, Append(suffixes, SliceFrom(str, off + 1)))
         ELSE BuildLoop(str, off + 1, suffixes)

\* Build slicing at the space itself, text[i:], instead of text[i+1:]
RECURSIVE BuildLoopAtSpace(_, _, _)
BuildLoopAtSpace(str, off, suffixes) ==
    IF off >= Len(str) THEN suffixes
    ELSE IF str[off + 1] = SP
         THEN BuildLoopAtSpace(str, off + 1, Append(suffixes, SliceFrom(str, off)))
         ELSE BuildLoopAtSpace(str, off + 1, suffixes)

BuildAtSpace(str) ==
    [suffixes |-> BuildLoopAtSpace(str, 0, <<SliceFrom(str, 0)>>), err |-> Nil]

Build(str) == [suffixes |-> BuildLoop(str, 0, <<SliceFrom(str, 0)>>), err |-> Nil]

-----------------------------------------------------------------------------
(* suffixarray.Sort: sort.Strings, an in-place comparison sort by Less *)

RECURSIVE Insert(_, _)
Insert(sorted, str) ==
    IF sorted = <<>> THEN <<str>>
    ELSE IF Less(str, Head(sorted)) THEN <<str>> \o sorted
    ELSE <<Head(sorted)>> \o Insert(Tail(sorted), str)

RECURSIVE SortStrings(_, _)
SortStrings(arr, done) ==
    IF arr = <<>> THEN done
    ELSE SortStrings(Tail(arr), Insert(done, Head(arr)))

\* Sort returning its argument without ordering it
SortUnsorted(arr) == [suffixes |-> arr, err |-> Nil]

Sort(arr) == [suffixes |-> SortStrings(arr, <<>>), err |-> Nil]

-----------------------------------------------------------------------------
(* getKWords *)

\* a slicer that returns the words collected so far when the text runs out
RECURSIVE GetKWordsPartialLoop(_, _, _, _, _, _, _, _)
GetKWordsPartialLoop(str, pos, skip, count, words, word, wordCount, skippedCount) ==
    IF pos > Len(str) THEN words
    ELSE IF str[pos] # SP
         THEN GetKWordsPartialLoop(str, pos + 1, skip, count, words,
                                   Append(word, str[pos]), wordCount, skippedCount)
    ELSE IF Len(word) = 0
         THEN GetKWordsPartialLoop(str, pos + 1, skip, count, words, word,
                                   wordCount, skippedCount)
    ELSE IF skip > 0 /\ skippedCount < skip
         THEN GetKWordsPartialLoop(str, pos + 1, skip, count, words, <<>>,
                                   wordCount, skippedCount + 1)
    ELSE LET sep == IF Len(words) > 0 THEN <<SP>> ELSE <<>>
             words2 == words \o sep \o word
         IN  IF wordCount + 1 >= count THEN words2
             ELSE GetKWordsPartialLoop(str, pos + 1, skip, count, words2, <<>>,
                                       wordCount + 1, skippedCount)

getKWordsPartial(str, skip, count) ==
    GetKWordsPartialLoop(str, 1, skip, count, <<>>, <<>>, 0, 0)

RECURSIVE GetKWordsLoop(_, _, _, _, _, _, _, _)
GetKWordsLoop(str, pos, skip, count, words, word, wordCount, skippedCount) ==
    IF pos > Len(str) THEN <<>>
    ELSE IF str[pos] # SP
         THEN GetKWordsLoop(str, pos + 1, skip, count, words,
                            Append(word, str[pos]), wordCount, skippedCount)
    ELSE IF Len(word) = 0
         THEN GetKWordsLoop(str, pos + 1, skip, count, words, word,
                            wordCount, skippedCount)
    ELSE IF skip > 0 /\ skippedCount < skip
         THEN GetKWordsLoop(str, pos + 1, skip, count, words, <<>>,
                            wordCount, skippedCount + 1)
    ELSE LET sep == IF Len(words) > 0 THEN <<SP>> ELSE <<>>
             words2 == words \o sep \o word
         IN  IF wordCount + 1 >= count THEN words2
             ELSE GetKWordsLoop(str, pos + 1, skip, count, words2, <<>>,
                                wordCount + 1, skippedCount)

getKWords(str, skip, count) == GetKWordsLoop(str, 1, skip, count, <<>>, <<>>, 0, 0)

\* getRandomPhrase with rand.Intn(len(suffixArray)) = rnd
getRandomPhrase(arr, kk, rnd) == getKWords(arr[rnd + 1], 0, kk)

-----------------------------------------------------------------------------
(* The search of generateTextFromSuffixArray *)

\* the closure handed to sort.Search (lines 129-141)
RECURSIVE SearchPredFrom(_, _, _)
SearchPredFrom(key, suffix, j) ==
    IF ~(j < Len(key) /\ j < Len(suffix)) THEN TRUE
    ELSE IF key[j + 1] = suffix[j + 1] THEN SearchPredFrom(key, suffix, j + 1)
    ELSE suffix[j + 1] > key[j + 1]

SearchPred(arr, key, idx) == SearchPredFrom(key, arr[idx + 1], 0)

\* sort.Search(n, f): binary search for the smallest index with f true
RECURSIVE SearchLoop(_, _, _, _)
SearchLoop(arr, key, lo, hi) ==
    IF ~(lo < hi) THEN lo
    ELSE LET h == (lo + hi) \div 2
         IN  IF ~SearchPred(arr, key, h) THEN SearchLoop(arr, key, h + 1, hi)
             ELSE SearchLoop(arr, key, lo, h)

Search(arr, key) == SearchLoop(arr, key, 0, Len(arr))

\* number of iterations of the scan loop at lines 155-160
RECURSIVE RunLength(_, _, _, _)
RunLength(arr, idx, key, j) ==
    IF j + idx < Len(arr) /\ HasPrefix(arr[j + idx + 1], key)
    THEN RunLength(arr, idx, key, j + 1)
    ELSE j

\* a scan that replaces its selection whenever the draw is even
RECURSIVE ScanLoopEven(_, _, _, _, _, _)
ScanLoopEven(arr, idx, key, j, draws, held) ==
    IF j + idx < Len(arr) /\ HasPrefix(arr[j + idx + 1], key)
    THEN ScanLoopEven(arr, idx, key, j + 1, draws,
                      IF draws[j + 1] % 2 = 0 THEN arr[j + idx + 1] ELSE held)
    ELSE held

\* the scan loop at lines 152-160; draws[j+1] is the j-th value of rand.Int()
RECURSIVE ScanLoop(_, _, _, _, _, _)
ScanLoop(arr, idx, key, j, draws, held) ==
    IF j + idx < Len(arr) /\ HasPrefix(arr[j + idx + 1], key)
    THEN ScanLoop(arr, idx, key, j + 1, draws,
                  IF draws[j + 1] % (j + 1) = 0 THEN arr[j + idx + 1] ELSE held)
    ELSE held

DrawVectors(len) == [1..len -> 0..MaxRand]

-----------------------------------------------------------------------------
(* Log lines: strings, times and the line patterns of ParseLine.           *)
(* A log line is a TLA+ string; Char(str, p) is its p-th character.        *)

Char(str, p) == SubSeq(str, p, p)

Digits == "0123456789"

IsDigit(c) == \E n \in 1..Len(Digits) : Char(Digits, n) = c

DigitVal(c) == (CHOOSE n \in 1..Len(Digits) : Char(Digits, n) = c) - 1

AllDigits(str) == \A p \in 1..Len(str) : IsDigit(Char(str, p))

\* strconv.Atoi on a string of digits
RECURSIVE Atoi(_)
Atoi(str) ==
    IF Len(str) = 0 THEN 0
    ELSE Atoi(SubSeq(str, 1, Len(str) - 1)) * 10 + DigitVal(Char(str, Len(str)))

\* the characters \S excludes
Whitespace == {" ", "\t"}

\* one element of a pattern: a literal, or a repeated character class
\* ("d" = \d, "S" = \S, "." = any character, "set" = one of the characters of s)
Lit(s) ==
    [t |-> "lit", s |-> s, min |-> 0, max |-> 0, greedy |-> TRUE, cap |-> FALSE]

Rep(cls, s, min, max, greedy, cap) ==
    [t |-> cls, s |-> s, min |-> min, max |-> max, greedy |-> greedy, cap |-> cap]

\* max = Unbounded stands for no upper limit on the repetition
Unbounded == -1

End == [t |-> "end", s |-> "", min |-> 0, max |-> 0, greedy |-> TRUE, cap |-> FALSE]

D2c == Rep("d", "", 2, 2, TRUE, TRUE)                \* (\d{2})
Dp == Rep("d", "", 1, Unbounded, TRUE, FALSE)        \* \d+
NSc == Rep("S", "", 1, Unbounded, TRUE, TRUE)        \* (\S+)
NSlazy == Rep("S", "", 1, Unbounded, FALSE, TRUE)    \* (\S+?)
Any1 == Rep(".", "", 1, Unbounded, TRUE, FALSE)      \* .+
Any1c == Rep(".", "", 1, Unbounded, TRUE, TRUE)      \* (.+)
Any0c == Rep(".", "", 0, Unbounded, TRUE, TRUE)      \* (.*)
Onec == Rep(".", "", 1, 1, TRUE, TRUE)               \* (.)
OptSign == Rep("set", "+@", 0, 1, TRUE, FALSE)       \* [+@]?

InClass(c, e) ==
    CASE e.t = "d" -> IsDigit(c)
      [] e.t = "S" -> c \notin Whitespace
      [] e.t = "." -> TRUE
      [] e.t = "set" -> \E p \in 1..Len(e.s) : Char(e.s, p) = c

\* how many characters from position si on belong to the class of e, up to limit
RECURSIVE ClassRun(_, _, _, _, _)
ClassRun(e, str, si, n, limit) ==
    IF n < limit /\ si + n <= Len(str) /\ InClass(Char(str, si + n), e)
    THEN ClassRun(e, str, si, n + 1, limit)
    ELSE n

NoMatch == [ok |-> FALSE, caps |-> <<>>]

\* regexp matching as Go prefers it: leftmost, a greedy repetition tries the
\* longest run first and a lazy one the shortest.  pat[pi] is matched at
\* position si of str; caps are the groups captured so far.
RECURSIVE MatchFrom(_, _, _, _, _)
RECURSIVE TryRep(_, _, _, _, _, _, _, _)
MatchFrom(pat, pi, str, si, caps) ==
    IF pi > Len(pat) THEN [ok |-> TRUE, caps |-> caps]
    ELSE LET e == pat[pi]
         IN  CASE e.t = "end" ->
                    IF si = Len(str) + 1
                    THEN MatchFrom(pat, pi + 1, str, si, caps)
                    ELSE NoMatch
               [] e.t = "lit" ->
                    IF /\ si + Len(e.s) - 1 <= Len(str)
                       /\ SubSeq(str, si, si + Len(e.s) - 1) = e.s
                    THEN MatchFrom(pat, pi + 1, str, si + Len(e.s), caps)
                    ELSE NoMatch
               [] OTHER ->
                    LET limit == IF e.max = Unbounded THEN Len(str) ELSE e.max
                        run == ClassRun(e, str, si, 0, limit)
                    IN  IF run < e.min THEN NoMatch
                        ELSE IF e.greedy
                             THEN TryRep(pat, pi, str, si, caps, run, -1, e.min)
                             ELSE TryRep(pat, pi, str, si, caps, e.min, 1, run)

\* try the repetition counts n, n+step, .. last in turn
TryRep(pat, pi, str, si, caps, n, step, last) ==
    LET e == pat[pi]
        caps2 == IF e.cap THEN Append(caps, SubSeq(str, si, si + n - 1)) ELSE caps
        rest == MatchFrom(pat, pi + 1, str, si + n, caps2)
    IN  IF rest.ok THEN rest
        ELSE IF n = last THEN NoMatch
        ELSE TryRep(pat, pi, str, si, caps, n + step, step, last)

\* FindStringSubmatch for a pattern that begins with ^
FindStringSubmatch(pat, str) == MatchFrom(pat, 1, str, 1, <<>>)

-----------------------------------------------------------------------------
(* Times.  A time.Time is the record of its wall-clock fields in the       *)
(* location it was made for.                                               *)

\* time.Time{}: January 1, year 1, 00:00:00
ZeroTime == [year |-> 1, month |-> 1, day |-> 1, hour |-> 0, minute |-> 0, second |-> 0]

\* a location is known by the wall-clock hours its zone transitions skip
UTC == [name |-> "UTC", gaps |-> {}]
Vancouver == [name |-> "America/Vancouver", gaps |-> {<<2016, 3, 13, 2>>}]
Locations == {UTC, Vancouver}

\* which of the two zones of a transition time.Date settles on
Zones == {"before", "after"}

IsLeap(y) == y % 4 = 0 /\ (y % 100 # 0 \/ y % 400 = 0)

DaysIn(y, m) ==
    IF m = 2 THEN (IF IsLeap(y) THEN 29 ELSE 28)
    ELSE IF m \in {4, 6, 9, 11} THEN 30 ELSE 31

\* a day number past the end of the month counts on into the next months
RECURSIVE NormDay(_, _, _)
NormDay(y, m, d) ==
    IF d <= DaysIn(y, m) THEN <<y, m, d>>
    ELSE NormDay(IF m = 12 THEN y + 1 ELSE y, IF m = 12 THEN 1 ELSE m + 1,
                 d - DaysIn(y, m))

\* time.Date(y, m, d, h, mi, s, 0, loc): values outside their usual ranges
\* are normalised; a wall-clock time inside a gap comes back an hour earlier
\* or later, depending on the zone chosen
Date(y, m, d, h, mi, s, loc, zone) ==
    LET mi1 == mi + s \div 60
        h1 == h + mi1 \div 60
        ymd == NormDay(y, m, d + h1 \div 24)
        hour == h1 % 24
        shift == IF <<ymd[1], ymd[2], ymd[3], hour>> \in loc.gaps
                 THEN (IF zone = "before" THEN -1 ELSE 1) ELSE 0
    IN  [year |-> ymd[1], month |-> ymd[2], day |-> ymd[3],
         hour |-> hour + shift, minute |-> mi1 % 60, second |-> s % 60]

DayNames == {"Mon", "Tue", "Wed", "Thu", "Fri", "Sat", "Sun"}

MonthNames == <<"Jan", "Feb", "Mar", "Apr", "May", "Jun",
                "Jul", "Aug", "Sep", "Oct", "Nov", "Dec">>

LogOpenTimeLayout == "Mon Jan 02 15:04:05 2006"

DayChangeTimeLayout == "Mon Jan 02 2006"

\* time.ParseInLocation for the two layouts above, on values with the
\* fixed-width fields Irssi writes: the names and digits are read, the ranges
\* are checked, and the fields are handed to Date
ParseInLocation(layout, value, loc, zone) ==
    LET clock == layout = LogOpenTimeLayout
        yearAt == IF clock THEN 21 ELSE 12
        shape ==
            /\ Len(value) = Len(layout)
            /\ SubSeq(value, 1, 3) \in DayNames
            /\ \E m \in 1..12 : MonthNames[m] = SubSeq(value, 5, 7)
            /\ Char(value, 4) = " " /\ Char(value, 8) = " " /\ Char(value, 11) = " "
            /\ AllDigits(SubSeq(value, 9, 10))
            /\ AllDigits(SubSeq(value, yearAt, yearAt + 3))
            /\ clock => /\ Char(value, 14) = ":" /\ Char(value, 17) = ":"
                        /\ Char(value, 20) = " "
                        /\ AllDigits(SubSeq(value, 12, 13))
                        /\ AllDigits(SubSeq(value, 15, 16))
                        /\ AllDigits(SubSeq(value, 18, 19))
        y == Atoi(SubSeq(value, yearAt, yearAt + 3))
        m == CHOOSE mm \in 1..12 : MonthNames[mm] = SubSeq(value, 5, 7)
        d == Atoi(SubSeq(value, 9, 10))
        h == IF clock THEN Atoi(SubSeq(value, 12, 13)) ELSE 0
        mi == IF clock THEN Atoi(SubSeq(value, 15, 16)) ELSE 0
        s == IF clock THEN Atoi(SubSeq(value, 18, 19)) ELSE 0
    IN  IF ~shape THEN [time |-> ZeroTime, err |-> "cannot parse"]
        ELSE IF h >= 24 \/ mi >= 60 \/ s >= 60 \/ d < 1 \/ d > DaysIn(y, m)
        THEN [time |-> ZeroTime, err |-> "out of range"]
        ELSE [time |-> Date(y, m, d, h, mi, s, loc, zone), err |-> Nil]

\* a clockToTime that forgets the current date
clockToTimeNoDate(hour, minutes, date, loc, zone) ==
    [time |-> Date(ZeroTime.year, ZeroTime.month, ZeroTime.day,
                   Atoi(hour), Atoi(minutes), 0, loc, zone),
     err |-> Nil]

\* clockToTime (lines 561-575): hour and minutes are two digits each, so
\* Atoi cannot fail
clockToTime(hour, minutes, date, loc, zone) ==
    [time |-> Date(date.year, date.month, date.day,
                   Atoi(hour), Atoi(minutes), 0, loc, zone),
     err |-> Nil]

-----------------------------------------------------------------------------
(* ParseLine *)

Clock == <<D2c, Lit(":"), D2c>>

\* one pattern of ParseLine with the entry it builds: time says how Time is
\* computed, the other fields give the number of the group each entry field
\* is taken from (0 = the field is left at its zero value)
Rule(type, pat, time, channel, nick, userHost, txt) ==
    [type |-> type, pat |-> pat, time |-> time, channel |-> channel,
     nick |-> nick, userHost |-> userHost, text |-> txt]

\* the patterns in the order ParseLine tries them (lines 117-554)
Rules == <<
    Rule("LogOpen", <<Lit("--- Log opened "), Any1c, End>>, "stamp", 0, 0, 0, 0),
    Rule("Join", Clock \o <<Lit(" -!- "), NSc, Lit(" ["), NSlazy,
                            Lit("] has joined "), NSc, End>>, "clock", 5, 3, 4, 0),
    Rule("ChannelSummary",
         Clock \o <<Lit(" -!- Irssi: "), NSc, Lit(": Total of "), Dp,
                    Lit(" nicks ["), Dp, Lit(" ops, "), Dp, Lit(" halfops, "), Dp,
                    Lit(" voices, "), Dp, Lit(" normal]"), End>>, "clock", 3, 0, 0, 0),
    Rule("Mode", Clock \o <<Lit(" -!- mode/"), NSc, Lit(" ["), Any1, Lit("] by "),
                            NSc, End>>, "clock", 3, 4, 0, 0),
    Rule("JoinSync", Clock \o <<Lit(" -!- Irssi: Join to "), NSc,
                                Lit(" was synced in "), Dp, Lit(" secs"), End>>,
         "clock", 3, 0, 0, 0),
    Rule("Message", Clock \o <<Lit(" <"), Onec, NSc, Lit("> "), Any0c, End>>,
         "clock", 0, 4, 0, 5),
    Rule("Quit", Clock \o <<Lit(" -!- "), NSc, Lit(" ["), NSc, Lit("] has quit ["),
                            Any0c, Lit("]"), End>>, "clock", 0, 3, 4, 5),
    Rule("NickChange", Clock \o <<Lit(" -!- "), NSc, Lit(" is now known as "), NSc,
                                  End>>, "clock", 0, 3, 0, 4),
    Rule("DayChange", <<Lit("--- Day changed "), Any1c, End>>, "day", 0, 0, 0, 0),
    Rule("LogClosed", <<Lit("--- Log closed "), Any1c, End>>, "stamp", 0, 0, 0, 0),
    Rule("NowTalking", Clock \o <<Lit(" -!- Irssi: You are now talking in "), NSc,
                                  End>>, "clock", 3, 0, 0, 0),
    Rule("Emote", Clock \o <<Lit("  * "), NSc, Lit(" "), Any0c, End>>,
         "clock", 0, 3, 0, 4),
    Rule("Topic", Clock \o <<Lit(" -!- "), NSc, Lit(" changed the topic of "), NSc,
                             Lit(" to: "), Any0c, End>>, "clock", 4, 3, 0, 5),
    Rule("Kick", Clock \o <<Lit(" -!- "), NSc, Lit(" was kicked from "), NSc,
                            Lit(" by "), NSc, Lit(" ["), Any0c, Lit("]"), End>>,
         "clock", 4, 3, 0, 6),
    Rule("Part", Clock \o <<Lit(" -!- "), NSc, Lit(" ["), NSc, Lit("] has left "),
                            NSc, Lit(" ["), Any0c, Lit("]"), End>>,
         "clock", 5, 3, 4, 6),
    Rule("YourNickChange", Clock \o <<Lit(" -!- You're now known as "), NSc, End>>,
         "clock", 0, 3, 0, 0),
    Rule("ServerMode", Clock \o <<Lit(" -!- ServerMode/"), NSc, Lit(" ["), Any1c,
                                  Lit("] by "), NSc, End>>, "clock", 3, 5, 0, 4),
    Rule("ChannelNotice", Clock \o <<Lit(" -"), NSc, Lit(":"), OptSign, NSc,
                                     Lit("- "), Any0c, End>>, "clock", 4, 3, 0, 5),
    Rule("IgnoreThis", Clock \o <<Lit(" -!- Keepnick:")>>, "none", 0, 0, 0, 0),
    Rule("ServerNotice", Clock \o <<Lit(" !"), NSc, Lit(" "), Any0c, End>>,
         "clock", 0, 3, 0, 4),
    Rule("BansNone", Clock \o <<Lit(" -!- Irssi: No bans in channel "), NSc, End>>,
         "clock", 3, 0, 0, 0) >>

\* the single-file program (src/irssi_log.go) has the first sixteen patterns,
\* and its message pattern ends in (.+)
OldRules ==
    [n \in 1..16 |->
        IF Rules[n].type = "Message"
        THEN [Rules[n] EXCEPT
                 !.pat = Clock \o <<Lit(" <"), Onec, NSc, Lit("> "), Any1c, End>>]
        ELSE Rules[n]]

Group(caps, n) == IF n = 0 THEN "" ELSE caps[n]

\* the value of one matching branch of ParseLine: the entry as a one-element
\* sequence, or no entry and an error
BuildEntry(rule, line, caps, loc, date, zone) ==
    LET t == CASE rule.time = "stamp" ->
                    ParseInLocation(LogOpenTimeLayout, caps[1], loc, zone)
               [] rule.time = "day" ->
                    ParseInLocation(DayChangeTimeLayout, caps[1], loc, zone)
               [] rule.time = "clock" ->
                    clockToTime(caps[1], caps[2], date, loc, zone)
               [] OTHER -> [time |-> ZeroTime, err |-> Nil]
    IN  IF t.err # Nil THEN [entry |-> <<>>, err |-> "Unable to parse timestamp"]
        ELSE [entry |-> <<[Line |-> IF rule.time = "none" THEN "" ELSE line,
                          Time |-> t.time,
                          Type |-> rule.type,
                          Channel |-> Group(caps, rule.channel),
                          Nick |-> Group(caps, rule.nick),
                          UserHost |-> Group(caps, rule.userHost),
                          Text |-> Group(caps, rule.text)]>>,
              err |-> Nil]

\* ParseLine picking the last pattern that matches
RECURSIVE ParseLineLastFrom(_, _, _, _, _, _)
ParseLineLastFrom(rules, n, line, loc, date, zone) ==
    IF n > Len(rules) THEN [entry |-> <<>>, err |-> "Unrecognized line"]
    ELSE LET later == ParseLineLastFrom(rules, n + 1, line, loc, date, zone)
             m == FindStringSubmatch(rules[n].pat, line)
         IN  IF later.err # "Unrecognized line" THEN later
             ELSE IF m.ok THEN BuildEntry(rules[n], line, m.caps, loc, date, zone)
             ELSE later

ParseLineLast(rules, line, loc, date, zone) ==
    ParseLineLastFrom(rules, 1, line, loc, date, zone)

\* ParseLine from its n-th pattern on
RECURSIVE ParseLineFrom(_, _, _, _, _, _)
ParseLineFrom(rules, n, line, loc, date, zone) ==
    IF n > Len(rules) THEN [entry |-> <<>>, err |-> "Unrecognized line"]
    ELSE LET m == FindStringSubmatch(rules[n].pat, line)
         IN  IF m.ok THEN BuildEntry(rules[n], line, m.caps, loc, date, zone)
             ELSE ParseLineFrom(rules, n + 1, line, loc, date, zone)

ParseLine(rules, line, loc, date, zone) ==
    ParseLineFrom(rules, 1, line, loc, date, zone)

-----------------------------------------------------------------------------
(* writeMessages of messages_to_string *)

\* strings.Split(str, " ") from position p on; cur is the piece in progress
RECURSIVE SplitFrom(_, _, _, _)
SplitFrom(str, p, cur, acc) ==
    IF p > Len(str) THEN Append(acc, cur)
    ELSE IF Char(str, p) = " " THEN SplitFrom(str, p + 1, "", Append(acc, cur))
    ELSE SplitFrom(str, p + 1, cur \o Char(str, p), acc)

Split(str) == SplitFrom(str, 1, "", <<>>)

\* strings.TrimSpace
RECURSIVE TrimSpace(_)
TrimSpace(str) ==
    IF Len(str) = 0 THEN str
    ELSE IF Char(str, 1) \in Whitespace THEN TrimSpace(SubSeq(str, 2, Len(str)))
    ELSE IF Char(str, Len(str)) \in Whitespace
         THEN TrimSpace(SubSeq(str, 1, Len(str) - 1))
    ELSE str

\* a pattern that lets https: through
urlPatternHttpOnly == <<Lit("http:")>>

\* "https?:"
urlPattern == <<Lit("http"), Rep("set", "s", 0, 1, TRUE, FALSE), Lit(":")>>

\* regexp.MatchString for a pattern without ^: a match may start anywhere
MatchString(pat, str) ==
    \E si \in 1..(Len(str) + 1) : MatchFrom(pat, 1, str, si, <<>>).ok

\* the inner loop of writeMessages (lines 363-386) over words[n..]; st holds
\* what has been written and the flag first
RECURSIVE WriteWords(_, _, _)
WriteWords(words, n, st) ==
    IF n > Len(words) THEN st
    ELSE IF Len(TrimSpace(words[n])) = 0 THEN WriteWords(words, n + 1, st)
    ELSE IF MatchString(urlPattern, words[n]) THEN WriteWords(words, n + 1, st)
    ELSE WriteWords(words, n + 1,
                    [buf |-> st.buf \o (IF st.first THEN "" ELSE " ") \o words[n],
                     first |-> FALSE])

\* the outer loop of writeMessages (lines 352-387) over entries[n..]
RECURSIVE WriteEntries(_, _, _)
WriteEntries(ents, n, st) ==
    IF n > Len(ents) THEN st
    ELSE IF ents[n].Type # "Message" THEN WriteEntries(ents, n + 1, st)
    ELSE IF HasPrefix(ents[n].Text, " ") THEN WriteEntries(ents, n + 1, st)
    ELSE WriteEntries(ents, n + 1, WriteWords(Split(ents[n].Text), 1, st))

writeMessages(ents) == WriteEntries(ents, 1, [buf |-> "", first |-> TRUE]).buf

-----------------------------------------------------------------------------
(* The log files of the model *)

MaxLogLines == 2
MaxLineLimit == 2

\* lines that logs of several lines are made of
CoreLines ==
    {"--- Log opened Sun Mar 13 01:59:00 2016",
     "--- Day changed Mon Mar 28 2016",
     "15:05 <@nick> see http://x.org now",
     "15:05 < bot>  automated",
     "02:30 <@nick> a  b ",
     "test"}

\* one line for every pattern, the lines of TestParseLine among them
SampleLines ==
    {"--- Log opened Sun Mar 27 15:04:05 2016",
     "15:04 -!- nick [user@host] has joined #channel",
     "15:04 -!- Irssi: #channel: Total of 5 nicks [4 ops, 0 halfops, 0 voices, 1 normal]",
     "15:04 -!- mode/#channel [+o nick1] by nick2",
     "15:04 -!- Irssi: Join to #channel was synced in 12 secs",
     "15:05 <@nick> get https://x.org/a",
     "15:06 -!- nick [user@host] has quit [Ping timeout: 240 seconds]",
     "15:06 -!- nick is now known as other",
     "--- Log closed Sun Mar 27 16:00:00 2016",
     "15:06 -!- Irssi: You are now talking in #channel",
     "15:06  * nick waves at all",
     "15:06 -!- nick changed the topic of #channel to: new topic",
     "15:06 -!- nick was kicked from #channel by op [bye [now]]",
     "15:06 -!- nick [user@host] has left #channel [later]",
     "15:06 -!- You're now known as me",
     "15:06 -!- ServerMode/#channel [+o nick] by irc.example.org",
     "15:06 -nick:@#channel- hello ops",
     "15:06 -!- Keepnick: [user@host] has joined #channel",
     "15:06 -!- Keepnick: Nick nick is now free",
     "25:61 <@nick> late",
     "15:05 <@nick> ",
     "15:06 !irc.example.org *** Looking up your hostname",
     "15:06 -!- Irssi: No bans in channel #channel",
     "--- Log opened Sun Mar 27 25:04:05 2016",
     "--- Day changed Mon Feb 30 2016",
     "--- Log opened yesterday"}

\* a log whose second line no pattern matches, with a line after it
BrokenLog ==
    <<"15:05 <@nick> see http://x.org now", "test",
      "15:05 < bot>  automated">>

Logs ==
    UNION {[1..len -> CoreLines] : len \in 0..MaxLogLines}
        \cup {<<line>> : line \in SampleLines}
        \cup {BrokenLog}

-----------------------------------------------------------------------------
(* main and generateTextFromSuffixArray *)

\* a Go map with no key
EmptyMap == [key \in {} |-> 0]

\* no word-frequency generator has run
WordsIdle ==
    /\ wordCounts = EmptyMap
    /\ phrases = <<>>
    /\ word0 = ""
    /\ word1 = ""
    /\ currentWord = ""
    /\ textWordCount = 0

Init ==
    /\ pc = "flags"
    /\ file \in {"", "corpus.txt"}
    /\ sentenceLength \in -1..MaxLength
    /\ k \in -1..MaxK
    /\ text = <<>>
    /\ suffixArray = <<>>
    /\ i = 0
    /\ phrase = <<>>
    /\ genText = <<>>
    /\ searchPhrase = <<>>
    /\ phraseIndex = 0
    /\ phraseFull = <<>>
    /\ prefix = <<>>
    /\ sentence = <<>>
    /\ err = Nil
    /\ exitCode = -1
    /\ program = "argot"
    /\ logLines = <<>>
    /\ lineLimit = 0
    /\ location = UTC
    /\ lineCount = 0
    /\ entries = <<>>
    /\ currentDate = ZeroTime
    /\ out = ""
    /\ WordsIdle

\* an exit that reports success
ExitSuccess(code) ==
    /\ pc' = "exit"
    /\ exitCode' = 0

Exit(code) ==
    /\ pc' = "exit"
    /\ exitCode' = code

\* a validation that lets a sentence length of 0 through
FlagsInvalidLax(f, length, kk) == Len(f) = 0 \/ length < 0 \/ kk <= 0

\* the three checks of main lines 30-46
FlagsInvalid(f, length, kk) == Len(f) = 0 \/ length <= 0 \/ kk <= 0

\* main lines 23-46: flag validation
CheckFlags ==
    /\ pc = "flags"
    /\ IF FlagsInvalid(file, sentenceLength, k)
       THEN Exit(1)
       ELSE pc' = "read" /\ UNCHANGED exitCode
    /\ UNCHANGED <<file, sentenceLength, k, text, suffixArray, i, phrase, genText,
                   searchPhrase, phraseIndex, phraseFull, prefix, sentence, err>>
    /\ UNCHANGED logVars
    /\ UNCHANGED wordVars

\* main lines 50-55: readFile either fails or yields the file's content
ReadFile ==
    /\ pc = "read"
    /\ \/ /\ err' = "read error"
          /\ Exit(1)
          /\ UNCHANGED text
       \/ /\ \E content \in Corpora : text' = content
          /\ err' = Nil
          /\ pc' = "build"
          /\ UNCHANGED exitCode
    /\ UNCHANGED <<file, sentenceLength, k, suffixArray, i, phrase, genText,
                   searchPhrase, phraseIndex, phraseFull, prefix, sentence>>
    /\ UNCHANGED logVars
    /\ UNCHANGED wordVars

\* main lines 59-64
BuildStep ==
    /\ pc = "build"
    /\ LET res == Build(text)
       IN  /\ err' = res.err
           /\ IF res.err # Nil
              THEN Exit(1) /\ UNCHANGED suffixArray
              ELSE /\ suffixArray' = res.suffixes
                   /\ pc' = "sort"
                   /\ UNCHANGED exitCode
    /\ UNCHANGED <<file, sentenceLength, k, text, i, phrase, genText,
                   searchPhrase, phraseIndex, phraseFull, prefix, sentence>>
    /\ UNCHANGED logVars
    /\ UNCHANGED wordVars

\* main lines 68-73
SortStep ==
    /\ pc = "sort"
    /\ LET res == Sort(suffixArray)
       IN  /\ err' = res.err
           /\ IF res.err # Nil
              THEN Exit(1) /\ UNCHANGED suffixArray
              ELSE /\ suffixArray' = res.suffixes
                   /\ pc' = "gen"
                   /\ UNCHANGED exitCode
    /\ UNCHANGED <<file, sentenceLength, k, text, i, phrase, genText,
                   searchPhrase, phraseIndex, phraseFull, prefix, sentence>>
    /\ UNCHANGED logVars
    /\ UNCHANGED wordVars

\* the loop condition written i <= length
LoopCondInclusive(iter, length) == iter <= length

\* the loop condition at line 118
LoopCond(iter, length) == iter < length

\* no phrase counts as empty: differs from the test at line 119
StartsFreshNever(phr) == FALSE

\* the test at line 119: an empty phrase starts afresh
StartsFresh(phr) == phr = <<>>

\* one iteration of the loop at lines 118-164
Iterate ==
    /\ pc = "gen"
    /\ LoopCond(i, sentenceLength)
    /\ IF StartsFresh(phrase)
       THEN \E rnd \in 0..(Len(suffixArray) - 1) :
                /\ prefix' = suffixArray[rnd + 1]
                /\ phrase' = getRandomPhrase(suffixArray, k, rnd)
                /\ UNCHANGED <<searchPhrase, phraseIndex, phraseFull>>
       ELSE LET key == phrase \o <<SP>>
                idx == Search(suffixArray, key)
            IN  /\ searchPhrase' = key
                /\ phraseIndex' = idx
                /\ IF idx = Len(suffixArray)
                   THEN \E rnd \in 0..(Len(suffixArray) - 1) :
                            /\ prefix' = suffixArray[rnd + 1]
                            /\ phrase' = getRandomPhrase(suffixArray, k, rnd)
                            /\ UNCHANGED phraseFull
                   ELSE \E draws \in DrawVectors(RunLength(suffixArray, idx, key, 0)) :
                            /\ phraseFull' = ScanLoop(suffixArray, idx, key, 0, draws, <<>>)
                            /\ phrase' = getKWords(phraseFull', k, k)
                            /\ UNCHANGED prefix
    /\ genText' = genText \o phrase' \o <<SP>>
    /\ i' = i + 1
    /\ UNCHANGED <<pc, file, sentenceLength, k, text, suffixArray, sentence, err,
                   exitCode>>
    /\ UNCHANGED logVars
    /\ UNCHANGED wordVars

\* lines 166 and 79-85: the loop is over, the text is returned and logged
Return ==
    /\ pc = "gen"
    /\ ~LoopCond(i, sentenceLength)
    /\ sentence' = genText
    /\ err' = Nil
    /\ pc' = "done"
    /\ exitCode' = 0
    /\ UNCHANGED <<file, sentenceLength, k, text, suffixArray, i, phrase, genText,
                   searchPhrase, phraseIndex, phraseFull, prefix>>
    /\ UNCHANGED logVars
    /\ UNCHANGED wordVars

Next ==
    \/ CheckFlags
    \/ ReadFile
    \/ BuildStep
    \/ SortStep
    \/ Iterate
    \/ Return

Spec == Init /\ [][Next]_vars

\* the process is a single sequential thread: once generation has started the
\* next loop step or the return is always taken
FairSpec == Spec /\ WF_vars(Iterate) /\ WF_vars(Return)

-----------------------------------------------------------------------------
(* The log programs: read_log and messages_to_string call ParseLog of      *)
(* package irssi_log; the single-file program irssi_log has its own        *)
(* parseLog and parseLine.                                                 *)

LogPrograms == {"read_log", "messages_to_string", "irssi_log"}

RulesOf(prog) == IF prog = "irssi_log" THEN OldRules ELSE Rules

\* the check that ends the loop early: ParseLog line 98, parseLog line 139
LimitReached(prog, count, limit) ==
    IF prog = "irssi_log" THEN count >= limit
    ELSE limit > 0 /\ count >= limit

InitLog ==
    /\ pc = "logflags"
    /\ program \in LogPrograms
    /\ logLines \in Logs
    /\ lineLimit \in -1..MaxLineLimit
    /\ location \in Locations
    /\ lineCount = 0
    /\ entries = <<>>
    /\ currentDate = ZeroTime
    /\ out = ""
    /\ WordsIdle
    /\ file = ""
    /\ sentenceLength = 0
    /\ k = 0
    /\ text = <<>>
    /\ suffixArray = <<>>
    /\ i = 0
    /\ phrase = <<>>
    /\ genText = <<>>
    /\ searchPhrase = <<>>
    /\ phraseIndex = 0
    /\ phraseFull = <<>>
    /\ prefix = <<>>
    /\ sentence = <<>>
    /\ err = Nil
    /\ exitCode = -1

\* main up to the call of ParseLog: the line limit is checked and the log
\* file is opened
CheckLogFlags ==
    /\ pc = "logflags"
    /\ \/ /\ lineLimit < 0
          /\ Exit(1)
          /\ UNCHANGED err
       \/ /\ lineLimit >= 0
          /\ err' = "Unable to open file"
          /\ Exit(1)
       \/ /\ lineLimit >= 0
          /\ pc' = "parse"
          /\ UNCHANGED <<err, exitCode>>
    /\ UNCHANGED <<lineCount, entries, currentDate, out>>
    /\ UNCHANGED <<program, logLines, lineLimit, location>>
    /\ UNCHANGED genVars
    /\ UNCHANGED wordVars

\* an entry of any type sets the current date: differs from ParseLog, which
\* looks at the type
ChangesDateAlways(type) == TRUE

\* the entry types after which ParseLog sets the current date (line 94)
ChangesDate(type) == type \in {"LogOpen", "DayChange"}

\* one turn of a loop that passes over a line ParseLine rejects and keeps
\* the entries it has: differs from ParseLog, which returns at that line
ScanLineSkip ==
    /\ pc = "parse"
    /\ lineCount < Len(logLines)
    /\ lineCount' = lineCount + 1
    /\ \E zone \in Zones :
        LET res == ParseLine(RulesOf(program), logLines[lineCount + 1], location,
                             currentDate, zone)
            entry == res.entry[1]
        IN  IF res.err # Nil
            THEN /\ pc' = IF LimitReached(program, lineCount', lineLimit)
                          THEN "parsed" ELSE "parse"
                 /\ UNCHANGED <<entries, currentDate, err, exitCode>>
            ELSE /\ entries' = Append(entries, entry)
                 /\ currentDate' =
                        IF ChangesDate(entry.Type)
                        THEN Date(entry.Time.year, entry.Time.month, entry.Time.day,
                                  0, 0, 0, location, zone)
                        ELSE currentDate
                 /\ pc' = IF LimitReached(program, lineCount', lineLimit)
                          THEN "parsed" ELSE "parse"
                 /\ UNCHANGED <<err, exitCode>>
    /\ UNCHANGED out
    /\ UNCHANGED <<program, logLines, lineLimit, location>>
    /\ UNCHANGED genVars
    /\ UNCHANGED wordVars

\* one turn of the loop of ParseLog (lines 80-101): a line is scanned and
\* parsed; a parse error makes ParseLog return nil and main exit
ScanLine ==
    /\ pc = "parse"
    /\ lineCount < Len(logLines)
    /\ lineCount' = lineCount + 1
    /\ \E zone \in Zones :
        LET res == ParseLine(RulesOf(program), logLines[lineCount + 1], location,
                             currentDate, zone)
            entry == res.entry[1]
        IN  IF res.err # Nil
            THEN /\ entries' = <<>>
                 /\ err' = "Unable to parse line"
                 /\ Exit(1)
                 /\ UNCHANGED currentDate
            ELSE /\ entries' = Append(entries, entry)
                 /\ currentDate' =
                        IF ChangesDate(entry.Type)
                        THEN Date(entry.Time.year, entry.Time.month, entry.Time.day,
                                  0, 0, 0, location, zone)
                        ELSE currentDate
                 /\ pc' = IF LimitReached(program, lineCount', lineLimit)
                          THEN "parsed" ELSE "parse"
                 /\ UNCHANGED <<err, exitCode>>
    /\ UNCHANGED out
    /\ UNCHANGED <<program, logLines, lineLimit, location>>
    /\ UNCHANGED genVars
    /\ UNCHANGED wordVars

\* the scanner has no more lines and no error (lines 103-108)
ScanEnd ==
    /\ pc = "parse"
    /\ lineCount = Len(logLines)
    /\ pc' = "parsed"
    /\ UNCHANGED <<lineCount, entries, currentDate, out, err, exitCode>>
    /\ UNCHANGED <<program, logLines, lineLimit, location>>
    /\ UNCHANGED genVars
    /\ UNCHANGED wordVars

\* the scanner stops on a read error (lines 103-106)
ScanFail ==
    /\ pc = "parse"
    /\ entries' = <<>>
    /\ err' = "Line scan failure"
    /\ Exit(1)
    /\ UNCHANGED <<lineCount, currentDate, out>>
    /\ UNCHANGED <<program, logLines, lineLimit, location>>
    /\ UNCHANGED genVars
    /\ UNCHANGED wordVars

\* read_log and irssi_log report the number of entries and end
Finish ==
    /\ pc = "parsed"
    /\ program # "messages_to_string"
    /\ pc' = "done"
    /\ exitCode' = 0
    /\ UNCHANGED <<lineCount, entries, currentDate, out, err>>
    /\ UNCHANGED <<program, logLines, lineLimit, location>>
    /\ UNCHANGED genVars
    /\ UNCHANGED wordVars

\* messages_to_string creates the output file and writes the messages
WriteOut ==
    /\ pc = "parsed"
    /\ program = "messages_to_string"
    /\ \/ /\ err' = "Unable to open output file"
          /\ Exit(1)
          /\ UNCHANGED out
       \/ /\ out' = writeMessages(entries)
          /\ pc' = "done"
          /\ exitCode' = 0
          /\ UNCHANGED err
    /\ UNCHANGED <<lineCount, entries, currentDate>>
    /\ UNCHANGED <<program, logLines, lineLimit, location>>
    /\ UNCHANGED genVars
    /\ UNCHANGED wordVars

NextLog ==
    \/ CheckLogFlags
    \/ ScanLine
    \/ ScanEnd
    \/ ScanFail
    \/ Finish
    \/ WriteOut

SpecLog == InitLog /\ [][NextLog]_vars

-----------------------------------------------------------------------------
(* The word-frequency generators: the one-word generator (analyzeEntries   *)
(* and generateText) and the two-word generator (analyzeEntries,           *)
(* generateText and pickWord).  Both count, for each word or two-word      *)
(* phrase of the messages of a log, the words that follow it.  A Go map is *)
(* a function; a range over a map visits its keys in any order.            *)

MaxEntries == 2
MaxWords == 3

\* the number of sentences the two-word generator writes (line 304)
Sentences == 10

WordPrograms == {"argot_word", "argot_phrase"}

CharsOf(str) == {Char(str, p) : p \in 1..Len(str)}

\* the characters the pattern at line 561 lets through:
\* [^a-zA-Z0-9,.\-!(@=_`%+/*#):?' ]
AllowedChars ==
    CharsOf("abcdefghijklmnopqrstuvwxyz") \cup CharsOf("ABCDEFGHIJKLMNOPQRSTUVWXYZ")
        \cup CharsOf(Digits) \cup CharsOf(",.-!(@=_`%+/*#):?' ")

\* re.MatchString at line 562: some character is outside the class
IgnoredText(txt) == \E p \in 1..Len(txt) : Char(txt, p) \notin AllowedChars

\* words[key][word]++ with the inner map made when missing
Bump(m, key, word) ==
    LET inner == IF key \in DOMAIN m THEN m[key] ELSE EmptyMap
        count == IF word \in DOMAIN inner THEN inner[word] ELSE 0
        inner2 == [w \in DOMAIN inner \cup {word} |->
                      IF w = word THEN count + 1 ELSE inner[w]]
    IN  [key2 \in DOMAIN m \cup {key} |-> IF key2 = key THEN inner2 ELSE m[key2]]

\* the inner loop of analyzeEntries over entryWords[n..] (lines 570-585 and
\* 348-370); st holds the map and the previous words
RECURSIVE AnalyzeWords(_, _, _, _)
AnalyzeWords(prog, entryWords, n, st) ==
    IF n > Len(entryWords) THEN st
    ELSE LET wordTrim == TrimSpace(entryWords[n])
         IN  IF Len(wordTrim) = 0
             THEN AnalyzeWords(prog, entryWords, n + 1, st)
             ELSE IF prog = "argot_word"
             THEN AnalyzeWords(prog, entryWords, n + 1,
                     [st EXCEPT !.words = IF Len(st.currentWord) > 0
                                          THEN Bump(@, st.currentWord, wordTrim)
                                          ELSE @,
                                !.currentWord = wordTrim])
             ELSE IF MatchString(urlPattern, wordTrim)
             THEN AnalyzeWords(prog, entryWords, n + 1, st)
             ELSE AnalyzeWords(prog, entryWords, n + 1,
                     [st EXCEPT !.words = IF Len(st.word0) > 0 /\ Len(st.word1) > 0
                                          THEN Bump(@, st.word0 \o " " \o st.word1,
                                                    wordTrim)
                                          ELSE @,
                                !.word0 = st.word1,
                                !.word1 = wordTrim])

\* the loop of analyzeEntries over ents[n..] (lines 549-586 and 328-371)
RECURSIVE AnalyzeFrom(_, _, _, _)
AnalyzeFrom(prog, ents, n, st) ==
    IF n > Len(ents) THEN st
    ELSE IF ents[n].Type # "Message" THEN AnalyzeFrom(prog, ents, n + 1, st)
    ELSE IF HasPrefix(ents[n].Text, " ") THEN AnalyzeFrom(prog, ents, n + 1, st)
    ELSE IF prog = "argot_word" /\ IgnoredText(ents[n].Text)
         THEN AnalyzeFrom(prog, ents, n + 1, st)
    ELSE AnalyzeFrom(prog, ents, n + 1,
                     AnalyzeWords(prog, Split(ents[n].Text), 1, st))

analyzeEntries(prog, ents) ==
    AnalyzeFrom(prog, ents, 1,
                [words |-> EmptyMap, currentWord |-> "", word0 |-> "",
                 word1 |-> ""]).words

\* the orders in which a range can visit the keys of a map
Orders(keys) ==
    {order \in [1..Cardinality(keys) -> keys] :
        \A a, b \in 1..Cardinality(keys) : a # b => order[a] # order[b]}

\* the loop over the followers (lines 625-637 and 432-443) from order[n] on,
\* visited in the given order
RECURSIVE PossibleWords(_, _, _, _, _)
PossibleWords(order, counts, n, frequency, possibleWords) ==
    IF n > Len(order) THEN possibleWords
    ELSE LET word == order[n]
             count == counts[word]
         IN  IF count < frequency
             THEN PossibleWords(order, counts, n + 1, frequency, possibleWords)
             ELSE IF count > frequency
             THEN PossibleWords(order, counts, n + 1, 0, <<word>>)
             ELSE PossibleWords(order, counts, n + 1, frequency,
                                Append(possibleWords, word))

\* the messages of the model's logs: followers with different counts, a
\* leading space, a character outside the class, a URL and a double space
WordTexts ==
    {"a b a b", "a c", "a b c", " bot said", "a; b", "see http://x.org  b"}

\* the entries ParseLog makes of message lines and of a day-changed line
WordEntries ==
    {ParseLine(Rules, "15:05 <@nick> " \o txt, UTC, ZeroTime, "before").entry[1] :
        txt \in WordTexts}
        \cup {ParseLine(Rules, "--- Day changed Mon Mar 28 2016", UTC, ZeroTime,
                        "before").entry[1]}

WordLogs == UNION {[1..len -> WordEntries] : len \in 0..MaxEntries}

\* main when ParseLog has returned the entries: the flags have been checked,
\* so the sentence length is positive (lines 268-272 and 492-496)
InitWords ==
    /\ pc = "analyze"
    /\ program \in WordPrograms
    /\ entries \in WordLogs
    /\ sentenceLength \in 1..MaxWords
    /\ logLines = <<>>
    /\ lineLimit = 0
    /\ location = UTC
    /\ lineCount = 0
    /\ currentDate = ZeroTime
    /\ out = ""
    /\ file = ""
    /\ k = 0
    /\ text = <<>>
    /\ suffixArray = <<>>
    /\ i = 0
    /\ phrase = <<>>
    /\ genText = <<>>
    /\ searchPhrase = <<>>
    /\ phraseIndex = 0
    /\ phraseFull = <<>>
    /\ prefix = <<>>
    /\ sentence = ""
    /\ err = Nil
    /\ exitCode = -1
    /\ wordCounts = EmptyMap
    /\ phrases = <<>>
    /\ word0 = ""
    /\ word1 = ""
    /\ currentWord = ""
    /\ textWordCount = 0

\* what the word-frequency generators never touch
wordFrame ==
    <<program, entries, sentenceLength, logLines, lineLimit, location, lineCount,
      currentDate, out, file, k, text, suffixArray, phrase, genText, searchPhrase,
      phraseIndex, phraseFull, prefix>>

\* main calls analyzeEntries (lines 296 and 520), which returns no error
Analyze ==
    /\ pc = "analyze"
    /\ wordCounts' = analyzeEntries(program, entries)
    /\ pc' = "generate"
    /\ UNCHANGED <<i, sentence, err, exitCode, phrases, word0, word1, currentWord,
                   textWordCount>>
    /\ UNCHANGED wordFrame

\* generateText up to its loop (lines 597-610 and 379-398): the keys are
\* collected in the order the range visits them and one is drawn; with no
\* key rand.Intn(0) panics and the process ends with status 2
StartText ==
    /\ pc = "generate"
    /\ IF DOMAIN wordCounts = {}
       THEN /\ err' = "panic: invalid argument to Intn"
            /\ Exit(2)
            /\ UNCHANGED <<sentence, phrases, word0, word1, currentWord,
                           textWordCount>>
       ELSE \E order \in Orders(DOMAIN wordCounts) :
            \E rnd \in 0..(Len(order) - 1) :
                /\ phrases' = order
                /\ sentence' = order[rnd + 1]
                /\ IF program = "argot_word"
                   THEN /\ currentWord' = order[rnd + 1]
                        /\ textWordCount' = 1
                        /\ UNCHANGED <<word0, word1>>
                   ELSE /\ word0' = Split(order[rnd + 1])[1]
                        /\ word1' = Split(order[rnd + 1])[2]
                        /\ textWordCount' = 2
                        /\ UNCHANGED currentWord
                /\ pc' = "pick"
                /\ UNCHANGED <<err, exitCode>>
    /\ UNCHANGED <<i, wordCounts>>
    /\ UNCHANGED wordFrame

\* one turn of the loop of generateText (lines 612-642; lines 400-405 with
\* pickWord, lines 413-447)
PickWord ==
    /\ pc = "pick"
    /\ textWordCount < sentenceLength
    /\ LET key == IF program = "argot_word" THEN currentWord
                  ELSE word0 \o " " \o word1
       IN  IF key \notin DOMAIN wordCounts
           THEN \E rnd \in 0..(Len(phrases) - 1) :
                    IF program = "argot_word"
                    THEN /\ currentWord' = phrases[rnd + 1]
                         /\ sentence' = sentence \o " " \o currentWord'
                         /\ UNCHANGED <<word0, word1>>
                    ELSE /\ word0' = Split(phrases[rnd + 1])[1]
                         /\ word1' = Split(phrases[rnd + 1])[2]
                         /\ sentence' = sentence \o ". "
                         /\ UNCHANGED currentWord
           ELSE \E order \in Orders(DOMAIN wordCounts[key]) :
                LET possibleWords == PossibleWords(order, wordCounts[key], 1, 0, <<>>)
                IN  \E rnd \in 0..(Len(possibleWords) - 1) :
                        LET randomWord == possibleWords[rnd + 1]
                        IN  /\ sentence' = sentence \o " " \o randomWord
                            /\ IF program = "argot_word"
                               THEN /\ currentWord' = randomWord
                                    /\ UNCHANGED <<word0, word1>>
                               ELSE /\ word0' = word1
                                    /\ word1' = randomWord
                                    /\ UNCHANGED currentWord
    /\ textWordCount' = textWordCount + 1
    /\ UNCHANGED <<pc, i, err, exitCode, wordCounts, phrases>>
    /\ UNCHANGED wordFrame

\* generateText returns its sentence; the one-word main logs it and ends
\* (lines 526-532), the two-word main goes round its loop (lines 304-312)
ReturnText ==
    /\ pc = "pick"
    /\ ~(textWordCount < sentenceLength)
    /\ IF program = "argot_word"
       THEN /\ pc' = "done"
            /\ exitCode' = 0
            /\ UNCHANGED i
       ELSE /\ i' = i + 1
            /\ IF i' < Sentences
               THEN pc' = "generate" /\ UNCHANGED exitCode
               ELSE pc' = "done" /\ exitCode' = 0
    /\ UNCHANGED <<sentence, err, wordCounts, phrases, word0, word1, currentWord,
                   textWordCount>>
    /\ UNCHANGED wordFrame

NextWords == Analyze \/ StartText \/ PickWord \/ ReturnText

SpecWords == InitWords /\ [][NextWords]_vars

-----------------------------------------------------------------------------
(* Vocabulary of the properties *)

Indices(arr) == 0..(Len(arr) - 1)

Min(x, y) == IF x <= y THEN x ELSE y

\* the 0-based indices whose suffix begins with key
Matching(arr, key) == {idx \in Indices(arr) : HasPrefix(arr[idx + 1], key)}

\* byte-wise x <= y, stated without recursion: x is a prefix of y, or the
\* first differing byte of x is the smaller one
LexLeq(x, y) ==
    \/ HasPrefix(y, x)
    \/ \E j \in 1..Min(Len(x), Len(y)) :
           /\ SubSeq(x, 1, j - 1) = SubSeq(y, 1, j - 1)
           /\ x[j] < y[j]

LexLess(x, y) == LexLeq(x, y) /\ x # y

IsSorted(arr) == \A p, q \in 1..Len(arr) : p < q => LexLeq(arr[p], arr[q])

\* idx is the lower bound of key and the start of the run of its matches
IsLowerBound(arr, key, idx) ==
    /\ \A below \in 0..(idx - 1) : LexLess(arr[below + 1], key)
    /\ Matching(arr, key) = idx..(idx + Cardinality(Matching(arr, key)) - 1)

SpaceOffsets(str) == {off \in 0..(Len(str) - 1) : str[off + 1] = SP}

HasNoWords(str) == \A pos \in 1..Len(str) : str[pos] = SP

EndsWithSpace(str) == str # <<>> /\ str[Len(str)] = SP

\* a corpus as the corpus assembler writes it: words joined by single
\* spaces, with no leading or trailing space
IsTrimmed(str) ==
    /\ str # <<>>
    /\ str[1] # SP
    /\ str[Len(str)] # SP
    /\ \A pos \in 1..(Len(str) - 1) : ~(str[pos] = SP /\ str[pos + 1] = SP)

\* exactly kk non-empty words joined by single spaces
IsPhrase(str, kk) ==
    /\ IsTrimmed(str)
    /\ Cardinality(SpaceOffsets(str)) = kk - 1

\* the phrases a fresh start can produce
FreshPhrases(arr, kk) == {getKWords(arr[idx + 1], 0, kk) : idx \in Indices(arr)}

\* a step of the loop, told from the state it starts in
LoopStep == pc = "gen" /\ i' = i + 1
FreshStep == LoopStep /\ phrase = <<>>
ContinuationStep == LoopStep /\ phrase # <<>>
CurrentKey == phrase \o <<SP>>
SearchMisses == Search(suffixArray, CurrentKey) = Len(suffixArray)
ScanEmpty ==
    /\ ~SearchMisses
    /\ RunLength(suffixArray, Search(suffixArray, CurrentKey), CurrentKey, 0) = 0

\* every key P+" " that some suffix of the array begins with
Keys(arr) ==
    {SubSeq(arr[p], 1, n) : <<p, n>> \in
        {<<q, m>> \in (1..Len(arr)) \X (1..(MaxCorpusLen + Len(ExampleCorpus))) :
            m <= Len(arr[q]) /\ m >= 2 /\ arr[q][m] = SP}}

\* the vectors of draws (r_0..r_{n-1}) with r_j in 0..j; v[j+1] is r_j
ResidueVectors(n) == {v \in [1..n -> 0..(n - 1)] : \A j \in 1..n : v[j] <= j - 1}

\* 0-based index of the first suffix that begins with key
RunStart(arr, key) ==
    CHOOSE p \in Matching(arr, key) : \A q \in Matching(arr, key) : p <= q

\* the last candidate j whose draw modulo j+1 is 0
LastZero(v) ==
    (CHOOSE p \in DOMAIN v : v[p] = 0 /\ \A q \in DOMAIN v : v[q] = 0 => q <= p) - 1

\* the words of a string: maximal runs of non-space bytes, numbered from 0
WordStarts(str) ==
    {p \in 1..Len(str) : str[p] # SP /\ (p = 1 \/ str[p - 1] = SP)}

WordCount(str) == Cardinality(WordStarts(str))

WordEnd(str, p) ==
    CHOOSE q \in p..Len(str) :
        /\ \A m \in p..q : str[m] # SP
        /\ q = Len(str) \/ str[q + 1] = SP

Word(str, n) ==
    LET p == CHOOSE start \in WordStarts(str) :
                 Cardinality({o \in WordStarts(str) : o < start}) = n
    IN  SubSeq(str, p, WordEnd(str, p))

\* the words numbered from .. to joined by single spaces
RECURSIVE JoinWords(_, _, _)
JoinWords(str, from, to) ==
    IF from > to THEN <<>>
    ELSE IF from = to THEN Word(str, from)
    ELSE Word(str, from) \o <<SP>> \o JoinWords(str, from + 1, to)

\* every word of the string is followed by a space
WordsClosed(str) == str = <<>> \/ str[Len(str)] = SP

\* the two places that call getKWords, told from the step taken
FreshPick == LoopStep /\ (FreshStep \/ SearchMisses)
ScanPick == ContinuationStep /\ ~SearchMisses /\ phraseFull' # <<>>

\* the words of a log text: maximal runs of characters other than the space
StrWordStarts(str) ==
    {p \in 1..Len(str) : Char(str, p) # " " /\ (p = 1 \/ Char(str, p - 1) = " ")}

StrWordAt(str, p) ==
    SubSeq(str, p, CHOOSE q \in p..Len(str) :
                       /\ \A m \in p..q : Char(str, m) # " "
                       /\ q = Len(str) \/ Char(str, q + 1) = " ")

StrWords(str) ==
    [n \in 1..Cardinality(StrWordStarts(str)) |->
        StrWordAt(str, CHOOSE p \in StrWordStarts(str) :
                           Cardinality({o \in StrWordStarts(str) : o <= p}) = n)]

\* an entry whose words go into the corpus
Contributes(entry) ==
    /\ entry.Type = "Message"
    /\ ~(Len(entry.Text) >= 1 /\ Char(entry.Text, 1) = " ")

\* the words of the contributing entries from the n-th entry on, in order
RECURSIVE CorpusWords(_, _)
CorpusWords(ents, n) ==
    IF n > Len(ents) THEN <<>>
    ELSE (IF Contributes(ents[n]) THEN StrWords(ents[n].Text) ELSE <<>>)
             \o CorpusWords(ents, n + 1)

RECURSIVE JoinStr(_)
JoinStr(words) ==
    IF Len(words) = 0 THEN ""
    ELSE IF Len(words) = 1 THEN words[1]
    ELSE words[1] \o " " \o JoinStr(Tail(words))

HasSubstring(str, sub) ==
    \E p \in 1..Len(str) :
        p + Len(sub) - 1 <= Len(str) /\ SubSeq(str, p, p + Len(sub) - 1) = sub

LooksLikeUrl(word) == HasSubstring(word, "http:") \/ HasSubstring(word, "https:")

NotUrl(word) == ~LooksLikeUrl(word)

\* no leading space, no trailing space, no two spaces in a row
StrClean(str) ==
    /\ \A p \in 1..(Len(str) - 1) : ~(Char(str, p) = " " /\ Char(str, p + 1) = " ")
    /\ Len(str) >= 1 => Char(str, 1) # " " /\ Char(str, Len(str)) # " "

Written == pc = "done" /\ program = "messages_to_string"

\* ParseLog has returned its entries to main
Returned == pc \in {"parsed", "done"}

\* the entry made from a line carries the line, but for the bare entry of a
\* Keepnick line
MadeFrom(entry, line) ==
    entry.Line = line \/ (entry.Type = "IgnoreThis" /\ entry.Line = "")

\* the numbers of the patterns of ParseLine that match the line
MatchingRules(line) ==
    {r \in 1..Len(Rules) : FindStringSubmatch(Rules[r].pat, line).ok}

FirstRule(line) == CHOOSE r \in MatchingRules(line) : \A q \in MatchingRules(line) : r <= q

\* the line begins with a clock stamp HH:MM
Stamped(line) ==
    /\ Len(line) >= 5
    /\ AllDigits(SubSeq(line, 1, 2)) /\ Char(line, 3) = ":"
    /\ AllDigits(SubSeq(line, 4, 5))

StampHour(line) == Atoi(SubSeq(line, 1, 2))
StampMinute(line) == Atoi(SubSeq(line, 4, 5))

IsLogOpen(line) == Len(line) > 15 /\ SubSeq(line, 1, 15) = "--- Log opened "

\* the fields of the timestamp written in a log-opened line
WrittenTime(line) ==
    [year |-> Atoi(SubSeq(line, 36, 39)),
     month |-> CHOOSE m \in 1..12 : MonthNames[m] = SubSeq(line, 20, 22),
     day |-> Atoi(SubSeq(line, 24, 25)),
     hour |-> Atoi(SubSeq(line, 27, 28)),
     minute |-> Atoi(SubSeq(line, 30, 31)),
     second |-> Atoi(SubSeq(line, 33, 34))]

\* the wall-clock hour h exists on the date in the location
HourExists(loc, date, h) == <<date.year, date.month, date.day, h>> \notin loc.gaps

\* a step of the loop of ParseLog that appends the entry of the next line
EntryStep == pc = "parse" /\ Len(entries') = Len(entries) + 1
NextLine == logLines[lineCount + 1]
NewEntry == entries'[Len(entries')]

\* the year, month and day of a time
DateOf(t) == <<t.year, t.month, t.day>>

\* midnight of the day of a time
Midnight(t) ==
    [year |-> t.year, month |-> t.month, day |-> t.day,
     hour |-> 0, minute |-> 0, second |-> 0]

\* the positions of the log-opened and day-changed entries of a list
DatedEntries(ents) ==
    {n \in 1..Len(ents) : ents[n].Type \in {"LogOpen", "DayChange"}}

\* midnight of the most recent log-opened or day-changed entry of a list,
\* the zero time when there is none
DateAfter(ents) ==
    IF DatedEntries(ents) = {}
    THEN ZeroTime
    ELSE Midnight(ents[CHOOSE n \in DatedEntries(ents) :
                          \A m \in DatedEntries(ents) : m <= n].Time)

\* ParseLog is reading lines or has returned its entries
Reading == pc \in {"parse", "parsed", "done"}

\* ParseLine returns an error for the line (no timestamp of a line depends
\* on the current date, so any date serves)
Rejected(line) ==
    ParseLine(RulesOf(program), line, location, ZeroTime, "before").err # Nil

\* a step of the loop of ParseLog that takes the next line
LineStep == pc = "parse" /\ lineCount' = lineCount + 1

\* ParseLog has returned the error of a rejected line
ParseFailed == pc = "exit" /\ err = "Unable to parse line"

\* the word or phrase whose followers generateText looks up
CurrentWords ==
    IF program = "argot_word" THEN currentWord ELSE word0 \o " " \o word1

\* the word the loop of generateText picked in the step
PickedWord == IF program = "argot_word" THEN currentWord' ELSE word1'

\* a turn of the loop of generateText for a word or phrase with followers
FollowerStep ==
    /\ pc = "pick"
    /\ textWordCount' = textWordCount + 1
    /\ CurrentWords \in DOMAIN wordCounts

\* the followers of a map with the highest count
MostFrequent(counts) ==
    {w \in DOMAIN counts : \A v \in DOMAIN counts : counts[v] <= counts[w]}

TheCat == <<Ord.t, Ord.h, Ord.e, SP, Ord.c, Ord.a, Ord.t>>
SatOn == <<Ord.s, Ord.a, Ord.t, SP, Ord.o, Ord.n>>
Ran == <<Ord.r, Ord.a, Ord.n>>

-----------------------------------------------------------------------------
(* Claims *)

\* C1: after every search, the returned index is a true lower bound of the
\* key P+" ": every suffix below it is byte-wise less than the key and the
\* suffixes with the key as a prefix are exactly one run starting at it
\* (stated for the arrays of trimmed corpora, whose last word is a suffix).
CexC1 ==
    (pc \in {"gen", "done"} /\ searchPhrase # <<>> /\ IsTrimmed(text))
        => IsLowerBound(suffixArray, searchPhrase, phraseIndex)

\* C2: in a continuation step the sampler selects a suffix beginning with
\* P+" " whenever some suffix begins with P+" ", and selects nothing exactly
\* when no suffix does; a selected suffix always begins with P+" "
\* (stated for the arrays of trimmed corpora).
CexC2 ==
    [][(ContinuationStep /\ IsTrimmed(text)) =>
        LET selected == phraseIndex' < Len(suffixArray) /\ phraseFull' # <<>>
        IN  /\ selected <=> Matching(suffixArray, CurrentKey) # {}
            /\ selected => HasPrefix(phraseFull', CurrentKey)]_vars

\* C3: over the example corpus with k = 2, a continuation step from the
\* phrase "the cat" yields "sat on" or "ran" and nothing else.
CexC3 ==
    [][(ContinuationStep /\ text = ExampleCorpus /\ k = 2 /\ phrase = TheCat)
        => phrase' \in {SatOn, Ran}]_vars

\* C4: when the search returns the array length or the scan finds no suffix
\* with prefix P+" ", the phrase appended in that same iteration is a
\* non-empty fresh-start phrase (stated for the arrays of trimmed corpora).
CexC4 ==
    [][(ContinuationStep /\ IsTrimmed(text) /\ (SearchMisses \/ ScanEmpty))
        => /\ phrase' # <<>>
           /\ phrase' \in FreshPhrases(suffixArray, k)
           /\ genText' = genText \o phrase' \o <<SP>>]_vars

\* C5: every phrase appended to the generated text consists of exactly k
\* non-empty words joined by single spaces (stated for trimmed corpora of
\* at least k words).
CexC5 ==
    [][(LoopStep /\ IsTrimmed(text) /\ Cardinality(SpaceOffsets(text)) + 1 >= k)
        => IsPhrase(phrase', k)]_vars

\* C6: generation ends after exactly sentenceLength iterations, each one
\* appending one phrase followed by one space, and returns a nil error.
ThmC6 ==
    /\ [](pc = "done" => /\ i = sentenceLength
                         /\ err = Nil
                         /\ exitCode = 0
                         /\ sentence = genText)
    /\ [][(pc = "gen" /\ pc' = "gen")
            => /\ i' = i + 1
               /\ i' <= sentenceLength
               /\ genText' = genText \o phrase' \o <<SP>>]_vars
    /\ (pc = "gen") ~> (pc = "done")

\* a run of at least two iterations that ended on a phrase that was not found
WitC6 ==
    /\ pc = "done"
    /\ i >= 2
    /\ searchPhrase # <<>>
    /\ phrase = <<>>

\* C7: when the corpus has words and ends with a space, so that the array
\* holds an empty suffix, no step takes its phrase from that suffix: the
\* fresh-start pick is never the empty suffix and the sampler never selects it.
CexC7 ==
    [][(LoopStep /\ EndsWithSpace(text) /\ ~HasNoWords(text))
        => /\ (FreshStep \/ SearchMisses) => prefix' # <<>>
           /\ (ContinuationStep /\ ~SearchMisses /\ ~ScanEmpty)
                 => phraseFull' # <<>>]_vars

\* C8: a corpus with no words never gets past Build: the tool neither sorts
\* nor generates from it.
CexC8 == HasNoWords(text) => pc \in {"flags", "read", "build", "exit"}

\* C9: Build returns count(' ')+1 entries: the corpus itself, then for each
\* space, in increasing order of offset, the suffix after it up to the end.
ThmC9 ==
    pc = "sort" =>
        /\ Len(suffixArray) = Cardinality(SpaceOffsets(text)) + 1
        /\ suffixArray[1] = text
        /\ \A off \in SpaceOffsets(text) :
               LET rank == Cardinality({o \in SpaceOffsets(text) : o < off})
               IN  suffixArray[rank + 2] = SubSeq(text, off + 2, Len(text))

\* a built array of a corpus with words and at least two spaces
WitC9 ==
    /\ pc = "sort"
    /\ Cardinality(SpaceOffsets(text)) >= 2
    /\ ~HasNoWords(text)

\* C10: Sort is idempotent and its result is in non-decreasing byte-wise order
\* over the full suffix text.
ThmC10 ==
    /\ pc = "sort" =>
           LET once == Sort(suffixArray).suffixes
           IN  /\ Sort(once).suffixes = once
               /\ IsSorted(once)
               /\ Len(once) = Len(suffixArray)
    /\ pc \in {"gen", "done"} =>
           /\ IsSorted(suffixArray)
           /\ Sort(suffixArray).suffixes = suffixArray

\* a sorted array of three or more suffixes that Build had in another order
WitC10 ==
    /\ pc = "gen"
    /\ Len(suffixArray) >= 3
    /\ suffixArray # Build(text).suffixes

\* C11: after Sort, for every phrase P the indices whose suffix begins with
\* P+" " form one contiguous range: no index between two of them is outside.
ThmC11 ==
    pc \in {"gen", "done"} =>
        \A key \in Keys(suffixArray) :
            \A lo, hi \in Matching(suffixArray, key) :
                \A mid \in lo..hi : mid \in Matching(suffixArray, key)

\* a sorted array in which some key is matched by two or more suffixes that
\* Build had placed apart
WitC11 ==
    /\ pc = "gen"
    /\ \E key \in Keys(suffixArray) :
           /\ Cardinality(Matching(suffixArray, key)) >= 2
           /\ \E lo, hi \in Matching(Build(text).suffixes, key) :
                  \E mid \in lo..hi : mid \notin Matching(Build(text).suffixes, key)

\* C12: over a run of N suffixes with prefix P+" " the sampler ends with the
\* last candidate j whose draw modulo j+1 is 0, and counted over all vectors of
\* draws (r_0..r_{N-1}) with r_j in 0..j every candidate is the final
\* selection for the same number of vectors; for N=1 the one candidate is
\* always chosen.
ThmC12 ==
    pc = "gen" =>
        \A key \in Keys(suffixArray) :
            LET idx == RunStart(suffixArray, key)
                n == RunLength(suffixArray, idx, key, 0)
                final(v) == ScanLoop(suffixArray, idx, key, 0, v, <<>>)
            IN  /\ n >= 1
                /\ \A v \in ResidueVectors(n) :
                       final(v) = suffixArray[idx + LastZero(v) + 1]
                /\ \A c \in 0..(n - 1) :
                       n * Cardinality({v \in ResidueVectors(n) :
                                           final(v) = suffixArray[idx + c + 1]})
                           = Cardinality(ResidueVectors(n))
                /\ n = 1 => \A v \in ResidueVectors(n) : final(v) = suffixArray[idx + 1]

\* the scan has run over three or more candidates and holds one that is not
\* the first of the run
WitC12 ==
    /\ pc = "gen"
    /\ phraseFull # <<>>
    /\ searchPhrase \in Keys(suffixArray)
    /\ RunLength(suffixArray, RunStart(suffixArray, searchPhrase), searchPhrase, 0) >= 3
    /\ phraseIndex = RunStart(suffixArray, searchPhrase)
    /\ phraseFull # suffixArray[phraseIndex + 1]

\* C13: for a text with at least skip+count words getKWords returns the
\* words numbered skip .. skip+count-1 joined by single spaces, also when the
\* last word needed is the final word of the text with no space after it.
CexC13 ==
    [][/\ (FreshPick /\ WordCount(prefix') >= k)
            => phrase' = JoinWords(prefix', 0, k - 1)
       /\ (ScanPick /\ WordCount(phraseFull') >= 2 * k)
            => phrase' = JoinWords(phraseFull', k, 2 * k - 1)]_vars

\* C14 as stated: for a text with fewer than skip+count words getKWords
\* returns the words available after the first skip words (checked on texts in
\* which every word is followed by a space).
CexC14 ==
    [][/\ (FreshPick /\ WordsClosed(prefix') /\ WordCount(prefix') < k)
            => phrase' = JoinWords(prefix', 0, WordCount(prefix') - 1)
       /\ (ScanPick /\ WordsClosed(phraseFull') /\ WordCount(phraseFull') < 2 * k)
            => phrase' = JoinWords(phraseFull', k, WordCount(phraseFull') - 1)]_vars

\* C14: for a text with fewer than skip+count words (count >= 1) getKWords
\* returns the empty string.
ThmC14 ==
    [][/\ (FreshPick /\ WordCount(prefix') < k) => phrase' = <<>>
       /\ (ScanPick /\ WordCount(phraseFull') < 2 * k) => phrase' = <<>>]_vars

\* the first pick was a suffix with at least one word but fewer than k, and
\* the slicer gave back nothing
WitC14 ==
    /\ pc = "gen"
    /\ i = 1
    /\ WordCount(prefix) >= 1
    /\ WordCount(prefix) < k
    /\ phrase = <<>>

ThmC16 ==
    /\ [][(<<pc, pc'>> \in {<<"flags", "read">>, <<"flags", "exit">>,
                            <<"read", "build">>, <<"read", "exit">>,
                            <<"build", "sort">>, <<"build", "exit">>,
                            <<"sort", "gen">>, <<"sort", "exit">>,
                            <<"gen", "gen">>, <<"gen", "done">>})]_vars
    /\ [][(pc \in {"gen", "done"}) => suffixArray' = suffixArray]_vars
    /\ [](pc \in {"gen", "done"} =>
            /\ suffixArray = Sort(Build(text).suffixes).suffixes
            /\ IsSorted(suffixArray))
    /\ [](pc \in {"flags", "read", "build", "sort"} => i = 0 /\ genText = <<>>)
    /\ [](err # Nil => pc = "exit")
    /\ [](pc = "exit" => /\ exitCode = 1
                         /\ suffixArray = <<>>
                         /\ i = 0 /\ genText = <<>> /\ sentence = <<>>)

\* reading the corpus has failed and the process has exited
WitC16 ==
    /\ pc = "exit"
    /\ err # Nil
    /\ ~FlagsInvalid(file, sentenceLength, k)

\* C17 as stated: the corpus written is the single-space join, in order, of
\* all words of the Message entries whose text does not begin with a space,
\* with no other filtering, and has no leading, trailing or double space.
CexC17 ==
    Written => /\ out = JoinStr(CorpusWords(entries, 1))
               /\ StrClean(out)

\* C17: the corpus written is the single-space join, in order, of the words
\* of the Message entries whose text does not begin with a space, leaving out
\* every word that contains "http:" or "https:"; it has no leading, trailing
\* or double space.
ThmC17 ==
    Written => /\ out = JoinStr(SelectSeq(CorpusWords(entries, 1), NotUrl))
               /\ StrClean(out)

\* a corpus has been written from a message with a URL-like word, while a
\* message beginning with a space was among the entries
WitC17 ==
    /\ Written
    /\ out # ""
    /\ \E n \in 1..Len(entries) :
           entries[n].Type = "Message" /\ HasPrefix(entries[n].Text, " ")
    /\ \E n \in 1..Len(entries) :
           /\ Contributes(entries[n])
           /\ \E w \in 1..Len(StrWords(entries[n].Text)) :
                  LooksLikeUrl(StrWords(entries[n].Text)[w])

\* C18: with lineLimit = 0 the whole log is read and one entry per line is
\* returned; with lineLimit = n > 0 exactly the first min(n, lines) lines are
\* read; the entries are in line order, one per line consumed.
CexC18 ==
    Returned =>
        /\ lineLimit = 0 => lineCount = Len(logLines)
        /\ lineLimit > 0 => lineCount = Min(lineLimit, Len(logLines))
        /\ Len(entries) = lineCount
        /\ \A n \in 1..Len(entries) : MadeFrom(entries[n], logLines[n])

\* C19: ParseLine returns what the first of its patterns that matches the
\* line builds: an entry of that pattern's type with the fields taken from the
\* line, or an error when the timestamp of a --- line cannot be parsed; a line
\* no pattern matches gives an error and no entry.
ThmC19 ==
    /\ (pc = "parse" /\ lineCount < Len(logLines)) =>
          \A zone \in Zones :
          LET line == logLines[lineCount + 1]
              res == ParseLine(Rules, line, location, currentDate, zone)
              matching == MatchingRules(line)
              first == CHOOSE r \in matching : \A q \in matching : r <= q
          IN  /\ matching = {} <=> res.err = "Unrecognized line"
              /\ res.err # Nil <=> res.entry = <<>>
              /\ res.err = Nil =>
                    /\ res.entry[1].Type = Rules[first].type
                    /\ MadeFrom(res.entry[1], line)
              /\ (res.err # Nil /\ matching # {}) =>
                    Rules[first].type \in {"LogOpen", "DayChange", "LogClosed"}
              /\ line = "--- Log opened Sun Mar 27 15:04:05 2016" =>
                    res.err = Nil /\ res.entry[1].Type = "LogOpen"
              /\ line = "15:04 -!- nick [user@host] has joined #channel" =>
                    /\ res.err = Nil
                    /\ res.entry[1].Type = "Join"
                    /\ res.entry[1].Nick = "nick"
                    /\ res.entry[1].UserHost = "user@host"
                    /\ res.entry[1].Channel = "#channel"
              /\ line = "15:04 -!- Irssi: #channel: Total of 5 nicks [4 ops, 0 halfops, 0 voices, 1 normal]" =>
                    /\ res.err = Nil
                    /\ res.entry[1].Type = "ChannelSummary"
                    /\ res.entry[1].Channel = "#channel"
              /\ line = "15:04 -!- mode/#channel [+o nick1] by nick2" =>
                    /\ res.err = Nil
                    /\ res.entry[1].Type = "Mode"
                    /\ res.entry[1].Channel = "#channel"
                    /\ res.entry[1].Nick = "nick2"
              /\ line = "test" => res.err # Nil /\ res.entry = <<>>
    /\ (program # "irssi_log" /\ entries # <<>>) =>
          entries[Len(entries)].Type = Rules[FirstRule(logLines[Len(entries)])].type

\* a line that two patterns match has been parsed: the join pattern, which
\* comes first, made the entry
WitC19 ==
    /\ Returned
    /\ program # "irssi_log"
    /\ Len(entries) = 1
    /\ Cardinality(MatchingRules(logLines[1])) >= 2
    /\ entries[1].Type = "Join"
    /\ entries[1].Nick = "Keepnick:"

\* C20 as stated: the entry of every recognised line stamped HH:MM has the
\* date of currentDate, hour HH, minute MM and zero seconds; the entry of a
\* log-opened line has the timestamp written in the line.
CexC20 ==
    [][EntryStep =>
        /\ Stamped(NextLine) =>
              NewEntry.Time = [year |-> currentDate.year, month |-> currentDate.month,
                               day |-> currentDate.day, hour |-> StampHour(NextLine),
                               minute |-> StampMinute(NextLine), second |-> 0]
        /\ IsLogOpen(NextLine) => NewEntry.Time = WrittenTime(NextLine)]_vars

\* C20: the entry of a recognised line stamped HH:MM, other than the bare
\* entry of a Keepnick line, whose Time is the zero time, has the date of
\* currentDate, hour HH, minute MM and zero seconds when HH <= 23, MM <= 59
\* and the hour exists on that date in the location; the entry of a
\* log-opened line has the timestamp written in the line when its hour exists
\* in the location, whatever currentDate is.
ThmC20 ==
    [][EntryStep =>
        /\ (/\ Stamped(NextLine)
            /\ NewEntry.Type # "IgnoreThis"
            /\ StampHour(NextLine) <= 23 /\ StampMinute(NextLine) <= 59
            /\ HourExists(location, currentDate, StampHour(NextLine))) =>
              NewEntry.Time = [year |-> currentDate.year, month |-> currentDate.month,
                               day |-> currentDate.day, hour |-> StampHour(NextLine),
                               minute |-> StampMinute(NextLine), second |-> 0]
        /\ (Stamped(NextLine) /\ NewEntry.Type = "IgnoreThis") =>
              NewEntry.Time = ZeroTime
        /\ (/\ IsLogOpen(NextLine)
            /\ HourExists(location, WrittenTime(NextLine), WrittenTime(NextLine).hour)) =>
              /\ NewEntry.Time = WrittenTime(NextLine)
              /\ \A zone \in Zones : \A date \in {ZeroTime, NewEntry.Time} :
                    ParseLine(RulesOf(program), NextLine, location, date, zone).entry
                        = <<NewEntry>>]_vars

\* after a log-opened line set the date, a line stamped HH:MM has been parsed
\* into an entry of that date
WitC20 ==
    /\ Returned
    /\ Len(entries) = 2
    /\ entries[1].Type = "LogOpen"
    /\ Stamped(logLines[2])
    /\ entries[2].Type = "Message"
    /\ entries[2].Time.year = entries[1].Time.year
    /\ entries[2].Time.day = entries[1].Time.day
    /\ entries[2].Time.hour = StampHour(logLines[2])

ThmC22 ==
    /\ [][(LineStep /\ Rejected(NextLine)) =>
              (pc' = "exit" /\ entries' = <<>> /\ err' # Nil /\ exitCode' = 1)]_vars
    /\ [][(LineStep /\ ~Rejected(NextLine)) => pc' # "exit"]_vars
    /\ [](ParseFailed =>
              /\ entries = <<>>
              /\ Rejected(logLines[lineCount])
              /\ \A n \in 1..(lineCount - 1) : ~Rejected(logLines[n]))
    /\ [][pc # "exit"]_vars

\* the second of three lines is rejected after the first gave an entry: no
\* entry is returned and the third line is never read
WitC22 ==
    /\ ParseFailed
    /\ lineCount = 2
    /\ Len(logLines) = 3
    /\ ~Rejected(logLines[1]) /\ ~Rejected(logLines[3])
    /\ entries = <<>>

\* C23: an iteration that starts with an empty phrase takes the fresh-start
\* branch: the phrase becomes the first k words of a suffix picked at random,
\* no search is run (the key, the index and the scanned suffix stay as they
\* were, and the key is never a lone space), and the counter goes up by one
\* even when the new phrase is empty again; so from any such iteration the
\* loop ends with the counter at the requested length.
ThmC23 ==
    /\ [][(pc = "gen" /\ phrase = <<>> /\ i < sentenceLength) =>
            /\ i' = i + 1
            /\ pc' = "gen"
            /\ prefix' \in {suffixArray[n] : n \in 1..Len(suffixArray)}
            /\ phrase' = getKWords(prefix', 0, k)
            /\ genText' = genText \o phrase' \o <<SP>>
            /\ UNCHANGED <<searchPhrase, phraseIndex, phraseFull>>]_vars
    /\ [](searchPhrase # <<SP>>)
    /\ ((pc = "gen" /\ phrase = <<>>) ~> (pc = "done" /\ i = sentenceLength))

\* every iteration of a run of two or more started with an empty phrase and
\* picked an empty phrase again, and the loop still ended
WitC23 ==
    /\ pc = "done"
    /\ i = sentenceLength
    /\ i >= 2
    /\ phrase = <<>>
    /\ Len(genText) = i
    /\ HasNoWords(genText)
    /\ searchPhrase = <<>>

\* C24 as stated: when followers are recorded for the current word or
\* phrase, the word the generator picks is one of the followers with the
\* highest recorded count, whatever the order the map is visited in.
CexC24 ==
    [][FollowerStep => PickedWord \in MostFrequent(wordCounts[CurrentWords])]_vars

====
